---------------------------- MODULE Spec2Model ----------------------------
(***************************************************************************)
(* The asynchronous Swiss tournament manager (src/main.py): the player    *)
(* ledger, the pairing engine, the board allocator and the standings       *)
(* calculator, with tournament.xlsx as the only persistent state.          *)
(*                                                                         *)
(* Encoding.  Points and results are kept in half points, so 1.0 / 0.5 /   *)
(* 0.0 are 2 / 1 / 0 and every sum the program forms in floating point is  *)
(* exact here.  A spreadsheet cell is a record [kind, val]: kind "nan" is  *)
(* an empty cell, "num" a number, "text" a non-numeric string such as the  *)
(* board sentinel "?".  A player's name is a function of the id, so a      *)
(* standings row carries the id where the program carries the name.        *)
(***************************************************************************)
EXTENDS Integers, Sequences, FiniteSets, TLC

VARIABLES
    attendees,      \* Attendees sheet: the roster ids, in sheet order
    pairings,       \* Pairings sheet: the rows, in sheet order
    standings,      \* Standings sheet: the rows the last run wrote
    MAX_BOARDS,     \* board management configuration (src/main.py:9)
    runs,           \* executions of main() so far
    player_state,   \* the ledger the last build_player_state returned
    new_pairings,   \* the list the last generate_pairings returned
    board_assigned_pairings, \* the list the last assign_board_numbers returned
    phase,          \* "file" between runs of main(); otherwise the position of
                    \* the driver that applies one function to drawn inputs
    tournament_data, \* display server: the global dict (src/display_server.py:19)
    loaded_by,      \* the reload that stored each key of tournament_data
    reloads,        \* calls of the display server's load_tournament_data so far
    events,         \* modification events of tournament.xlsx not yet dispatched
    current_time,   \* time.time(), in half seconds
    last_modified,  \* ExcelFileHandler.last_modified
    handler,        \* position of the thread that runs load_tournament_data
    request,        \* position and reads of a request thread in combined_view
    graph,          \* the nx.Graph handed to greedy_matching: its nodes and
                    \* its edges, each in the order they were added
    matching        \* the set greedy_matching returned

display == <<tournament_data, loaded_by, reloads, events, current_time,
             last_modified,
             handler, request>>

fallback == <<graph, matching>>

vars == <<attendees, pairings, standings, MAX_BOARDS, runs, player_state,
          new_pairings, board_assigned_pairings, phase, display, fallback>>

(***************************************************************************)
(* Bounds of the model.                                                    *)
(***************************************************************************)
NumPlayers == 5
LedgerPlayers == 4
MaxRuns == 3
MaxBoards == 2
MaxHist == 2
MaxExisting == 3
MaxNew == 3
MaxRound == 2
FoundPlayers == 4
MaxPast == 4
DisplayPlayers == 2
MaxTime == 10
GreedyNodes == 3
MaxEdges == 3

(***************************************************************************)
(* Cells.                                                                  *)
(***************************************************************************)
NaN == [kind |-> "nan", val |-> 0]
Num(v) == [kind |-> "num", val |-> v]
Text == [kind |-> "text", val |-> 0]

notna(c) == c.kind # "nan"

Roster(n) == [i \in 1..n |-> i]

Range(s) == {s[i] : i \in 1..Len(s)}

RECURSIVE SumSeq(_)
SumSeq(s) == IF s = <<>> THEN 0 ELSE s[1] + SumSeq(Tail(s))

Abs(x) == IF x < 0 THEN -x ELSE x

Max(a, b) == IF a >= b THEN a ELSE b

(***************************************************************************)
(* build_player_state.                                                     *)
(***************************************************************************)
NewPlayer ==
    [points |-> 0, games_played |-> 0, last_color |-> "None",
     opponents |-> {}, opponent_scores |-> <<>>, currently_playing |-> FALSE]

InitialState(att) == [p \in Range(att) |-> NewPlayer]

\* Mutant: one present result is enough ("or" for "and").
game_finished_Either(row) == notna(row.ResW) \/ notna(row.ResB)

game_finished(row) == notna(row.ResW) /\ notna(row.ResB)

\* Mutant: the opponent's score is stored for White only.
ProcessPairing_OneScore(ps, row) ==
    LET w == row.White
        b == row.Black
        rw == row.ResW
        rb == row.ResB
        s1 == [ps EXCEPT ![w].opponents = @ \cup {b}]
        s2 == [s1 EXCEPT ![b].opponents = @ \cup {w}]
        s3 == [s2 EXCEPT ![w].points = @ + rw.val]
        s4 == [s3 EXCEPT ![b].points = @ + rb.val]
        s5 == [s4 EXCEPT ![w].games_played = @ + 1]
        s6 == [s5 EXCEPT ![b].games_played = @ + 1]
        s7 == [s6 EXCEPT ![w].last_color = "White"]
        s8 == [s7 EXCEPT ![b].last_color = "Black"]
        s9 == [s8 EXCEPT ![w].opponent_scores = Append(@, s8[b].points)]
        p1 == [s2 EXCEPT ![w].currently_playing = TRUE]
        p2 == [p1 EXCEPT ![b].currently_playing = TRUE]
    IN  IF w \notin DOMAIN ps \/ b \notin DOMAIN ps THEN ps
        ELSE IF ~game_finished(row) THEN p2
        ELSE IF rw.kind # "num" THEN s2
        ELSE IF rb.kind # "num" THEN s3
        ELSE s9

\* Mutant: the row is skipped only when both ids are unknown ("and" for "or");
\* with one unknown id the lookup of that id raises, after White's opponents
\* were updated when the unknown id is Black's.
ProcessPairing_BothUnknown(ps, row) ==
    LET w == row.White
        b == row.Black
        rw == row.ResW
        rb == row.ResB
        s1 == [ps EXCEPT ![w].opponents = @ \cup {b}]
        s2 == [s1 EXCEPT ![b].opponents = @ \cup {w}]
        s3 == [s2 EXCEPT ![w].points = @ + rw.val]
        s4 == [s3 EXCEPT ![b].points = @ + rb.val]
        s5 == [s4 EXCEPT ![w].games_played = @ + 1]
        s6 == [s5 EXCEPT ![b].games_played = @ + 1]
        s7 == [s6 EXCEPT ![w].last_color = "White"]
        s8 == [s7 EXCEPT ![b].last_color = "Black"]
        s9 == [s8 EXCEPT ![w].opponent_scores = Append(@, s8[b].points)]
        s10 == [s9 EXCEPT ![b].opponent_scores = Append(@, s9[w].points)]
        p1 == [s2 EXCEPT ![w].currently_playing = TRUE]
        p2 == [p1 EXCEPT ![b].currently_playing = TRUE]
    IN  IF w \notin DOMAIN ps THEN ps
        ELSE IF b \notin DOMAIN ps THEN s1
        ELSE IF ~game_finished(row) THEN p2
        ELSE IF rw.kind # "num" THEN s2
        ELSE IF rb.kind # "num" THEN s3
        ELSE s10

\* The body of the loop for one row.  float() of a text cell raises, and the
\* except clause keeps every update made before it.
ProcessPairing(ps, row) ==
    LET w == row.White
        b == row.Black
        rw == row.ResW
        rb == row.ResB
        s1 == [ps EXCEPT ![w].opponents = @ \cup {b}]
        s2 == [s1 EXCEPT ![b].opponents = @ \cup {w}]
        s3 == [s2 EXCEPT ![w].points = @ + rw.val]
        s4 == [s3 EXCEPT ![b].points = @ + rb.val]
        s5 == [s4 EXCEPT ![w].games_played = @ + 1]
        s6 == [s5 EXCEPT ![b].games_played = @ + 1]
        s7 == [s6 EXCEPT ![w].last_color = "White"]
        s8 == [s7 EXCEPT ![b].last_color = "Black"]
        s9 == [s8 EXCEPT ![w].opponent_scores = Append(@, s8[b].points)]
        s10 == [s9 EXCEPT ![b].opponent_scores = Append(@, s9[w].points)]
        p1 == [s2 EXCEPT ![w].currently_playing = TRUE]
        p2 == [p1 EXCEPT ![b].currently_playing = TRUE]
    IN  IF w \notin DOMAIN ps \/ b \notin DOMAIN ps THEN ps
        ELSE IF ~game_finished(row) THEN p2
        ELSE IF rw.kind # "num" THEN s2
        ELSE IF rb.kind # "num" THEN s3
        ELSE s10

RECURSIVE ProcessPairings(_, _)
ProcessPairings(ps, rows) ==
    IF rows = <<>> THEN ps
    ELSE ProcessPairings(ProcessPairing(ps, Head(rows)), Tail(rows))

build_player_state(att, rows) == ProcessPairings(InitialState(att), rows)

(***************************************************************************)
(* get_board_usage_count and assign_board_numbers.                         *)
(***************************************************************************)
\* board_usage.get(b, 0): the unfinished rows whose Board cell is a number b.
\* An empty cell and "?" are skipped, and int() of any other text raises, which
\* skips the row as well.
get_board_usage_count(rows, b) ==
    Cardinality({i \in 1..Len(rows) :
                    /\ ~game_finished(rows[i])
                    /\ rows[i].Board.kind = "num"
                    /\ rows[i].Board.val = b})

RECURSIVE BoardsWith(_, _, _, _)
\* The boards from..max_boards whose usage satisfies the class (0, or 1), ascending.
BoardsWith(rows, usage, from, max_boards) ==
    IF from > max_boards THEN <<>>
    ELSE IF get_board_usage_count(rows, from) = usage
         THEN <<from>> \o BoardsWith(rows, usage, from + 1, max_boards)
         ELSE BoardsWith(rows, usage, from + 1, max_boards)

RECURSIVE InsertByRound(_, _)
\* Stable insertion: after every element whose Round is not larger.
InsertByRound(sorted, x) ==
    IF sorted = <<>> THEN <<x>>
    ELSE IF Head(sorted).Round <= x.Round
         THEN <<Head(sorted)>> \o InsertByRound(Tail(sorted), x)
         ELSE <<x>> \o sorted

\* Mutant: the new pairings are taken in the order given, without sorting.
SortByRound_Unsorted(s) == s

RECURSIVE SortByRound(_)
\* sorted(new_pairings, key=lambda x: x["Round"])
SortByRound(s) ==
    IF s = <<>> THEN <<>>
    ELSE InsertByRound(SortByRound(SubSeq(s, 1, Len(s) - 1)), s[Len(s)])

\* Mutant: the boards with one pending game are handed out first.
BoardFor_BusyFirst(k, boards_with_0, boards_with_1) ==
    IF k <= Len(boards_with_1) THEN Num(boards_with_1[k])
    ELSE IF k - Len(boards_with_1) <= Len(boards_with_0)
         THEN Num(boards_with_0[k - Len(boards_with_1)])
         ELSE Text

\* Mutant: the second loop reads boards_with_1[0] without popping it.
BoardFor_NoPop(k, boards_with_0, boards_with_1) ==
    IF k <= Len(boards_with_0) THEN Num(boards_with_0[k])
    ELSE IF Len(boards_with_1) > 0 THEN Num(boards_with_1[1])
         ELSE Text

\* The Board cell of the k-th pairing of sorted_pairings: the first loop pops
\* boards_with_0, the second loop pops boards_with_1, the third gives "?".
BoardFor(k, boards_with_0, boards_with_1) ==
    IF k <= Len(boards_with_0) THEN Num(boards_with_0[k])
    ELSE IF k - Len(boards_with_0) <= Len(boards_with_1)
         THEN Num(boards_with_1[k - Len(boards_with_0)])
         ELSE Text

assign_board_numbers(new, existing, max_boards) ==
    LET boards_with_0 == BoardsWith(existing, 0, 1, max_boards)
        boards_with_1 == BoardsWith(existing, 1, 1, max_boards)
        sorted_pairings == SortByRound(new)
    IN  [k \in 1..Len(new) |->
            [Round |-> sorted_pairings[k].Round,
             Board |-> BoardFor(k, boards_with_0, boards_with_1),
             White |-> sorted_pairings[k].White,
             Black |-> sorted_pairings[k].Black]]

(***************************************************************************)
(* The pairing engine.                                                     *)
(***************************************************************************)
RECURSIVE SelectSeq2(_, _)
\* The members of list s that are in set keep, in the order of s.
SelectSeq2(s, keep) ==
    IF s = <<>> THEN <<>>
    ELSE IF Head(s) \in keep THEN <<Head(s)>> \o SelectSeq2(Tail(s), keep)
         ELSE SelectSeq2(Tail(s), keep)

\* Mutant: the currently_playing flag is not consulted.
get_waiting_players_All(att, ps) == SelectSeq2(att, DOMAIN ps)

\* player_state is a dict in roster order; waiting keeps that order.
get_waiting_players(att, ps) ==
    SelectSeq2(att, {p \in DOMAIN ps : ~ps[p].currently_playing})

\* Mutant: rule 1 (no rematches) is missing.
can_pair_NoRematchRule(a, b, ps, same_group) ==
    IF ~same_group /\ Abs(ps[a].games_played - ps[b].games_played) > 1
         THEN FALSE
    ELSE IF ps[a].last_color = "None" /\ ps[b].last_color = "None" THEN TRUE
    ELSE IF ps[a].last_color = "None" \/ ps[b].last_color = "None" THEN TRUE
    ELSE IF ps[a].last_color # ps[b].last_color THEN TRUE
    ELSE FALSE

\* Mutant: a missing last colour is compared like a colour.
can_pair_NoneIsAColour(a, b, ps, same_group) ==
    IF b \in ps[a].opponents THEN FALSE
    ELSE IF ~same_group /\ Abs(ps[a].games_played - ps[b].games_played) > 1
         THEN FALSE
    ELSE ps[a].last_color # ps[b].last_color

\* Mutant: rule 3 (strict colour alternation) is missing.
can_pair_NoColourRule(a, b, ps, same_group) ==
    IF b \in ps[a].opponents THEN FALSE
    ELSE IF ~same_group /\ Abs(ps[a].games_played - ps[b].games_played) > 1
         THEN FALSE
    ELSE TRUE

can_pair(a, b, ps, same_group) ==
    IF b \in ps[a].opponents THEN FALSE
    ELSE IF ~same_group /\ Abs(ps[a].games_played - ps[b].games_played) > 1
         THEN FALSE
    ELSE IF ps[a].last_color = "None" /\ ps[b].last_color = "None" THEN TRUE
    ELSE IF ps[a].last_color = "None" \/ ps[b].last_color = "None" THEN TRUE
    ELSE IF ps[a].last_color # ps[b].last_color THEN TRUE
    ELSE FALSE

\* 50.0 * score_diff is 25 per half point.
calculate_weight(a, b, ps, same_group) ==
    IF same_group THEN 10000
    ELSE 100 - 25 * Abs(ps[a].points - ps[b].points)
             - 500 * Abs(ps[a].games_played - ps[b].games_played)

GroupKey(ps, p) == <<ps[p].games_played, ps[p].points>>

\* len(groups[key]) for the group of waiting[i].
GroupSize(ps, waiting, i) ==
    Cardinality({j \in 1..Len(waiting) :
                    GroupKey(ps, waiting[j]) = GroupKey(ps, waiting[i])})

\* Mutant: the inner loop of the first pass starts at group_players[i+2:].
SameGroupEdges_SkipNext(ps, waiting) ==
    {[a |-> waiting[i], b |-> waiting[j],
      weight |-> calculate_weight(waiting[i], waiting[j], ps, TRUE)] :
        <<i, j>> \in {x \in (1..Len(waiting)) \X (1..Len(waiting)) :
                        /\ x[1] + 1 < x[2]
                        /\ GroupKey(ps, waiting[x[1]]) = GroupKey(ps, waiting[x[2]])
                        /\ can_pair(waiting[x[1]], waiting[x[2]], ps, TRUE)}}

\* create_pairing_graph: the weighted edges, as records [a, b, weight] with a
\* before b in the waiting list.  First pass: inside a (games, points) group.
\* Second pass: between the members of one-player groups, when there are two.
SameGroupEdges(ps, waiting) ==
    {[a |-> waiting[i], b |-> waiting[j],
      weight |-> calculate_weight(waiting[i], waiting[j], ps, TRUE)] :
        <<i, j>> \in {x \in (1..Len(waiting)) \X (1..Len(waiting)) :
                        /\ x[1] < x[2]
                        /\ GroupKey(ps, waiting[x[1]]) = GroupKey(ps, waiting[x[2]])
                        /\ can_pair(waiting[x[1]], waiting[x[2]], ps, TRUE)}}

\* Mutant: the second pass takes every pair of different groups, not only the
\* players that are alone in their group.
CrossGroupEdges_AnyGroup(ps, waiting) ==
    {[a |-> waiting[i], b |-> waiting[j],
      weight |-> calculate_weight(waiting[i], waiting[j], ps, FALSE)] :
        <<i, j>> \in {x \in (1..Len(waiting)) \X (1..Len(waiting)) :
                        /\ x[1] < x[2]
                        /\ GroupKey(ps, waiting[x[1]]) # GroupKey(ps, waiting[x[2]])
                        /\ can_pair(waiting[x[1]], waiting[x[2]], ps, FALSE)}}

CrossGroupEdges(ps, waiting) ==
    {[a |-> waiting[i], b |-> waiting[j],
      weight |-> calculate_weight(waiting[i], waiting[j], ps, FALSE)] :
        <<i, j>> \in {x \in (1..Len(waiting)) \X (1..Len(waiting)) :
                        /\ x[1] < x[2]
                        /\ GroupSize(ps, waiting, x[1]) = 1
                        /\ GroupSize(ps, waiting, x[2]) = 1
                        /\ can_pair(waiting[x[1]], waiting[x[2]], ps, FALSE)}}

create_pairing_graph(waiting, ps) ==
    SameGroupEdges(ps, waiting) \cup CrossGroupEdges(ps, waiting)

(***************************************************************************)
(* nx.max_weight_matching(G, maxcardinality=True): a matching of maximum   *)
(* cardinality and, among those, of maximum total weight.  Which of        *)
(* several such matchings the library returns is not fixed by its          *)
(* contract: every one of them is a possible result.                       *)
(***************************************************************************)
Disjoint(e, f) == {e.a, e.b} \cap {f.a, f.b} = {}

RECURSIVE Matchings(_)
Matchings(E) ==
    IF E = {} THEN {{}}
    ELSE LET e == CHOOSE x \in E : TRUE
             rest == E \ {e}
         IN  Matchings(rest) \cup
             {m \cup {e} : m \in Matchings({f \in rest : Disjoint(e, f)})}

RECURSIVE TotalWeight(_)
TotalWeight(m) ==
    IF m = {} THEN 0
    ELSE LET e == CHOOSE x \in m : TRUE
         IN  e.weight + TotalWeight(m \ {e})

\* Mutant: maxcardinality=True is missing, the weight alone decides.
max_weight_matching_WeightOnly(E) ==
    LET all == Matchings(E)
    IN  {m \in all : \A n \in all : TotalWeight(n) <= TotalWeight(m)}

max_weight_matching(E) ==
    LET all == Matchings(E)
        largest == {m \in all : \A n \in all : Cardinality(n) <= Cardinality(m)}
    IN  {m \in largest : \A n \in largest : TotalWeight(n) <= TotalWeight(m)}

\* Mutant: two experienced players keep the order of the arguments.
assign_colors_ArgumentOrder(a, b, ps) ==
    LET color_a == ps[a].last_color
        color_b == ps[b].last_color
    IN  IF color_a = "None" /\ color_b = "None" THEN {<<a, b>>, <<b, a>>}
        ELSE IF color_a = "None"
             THEN (IF color_b = "White" THEN {<<a, b>>} ELSE {<<b, a>>})
        ELSE IF color_b = "None"
             THEN (IF color_a = "White" THEN {<<b, a>>} ELSE {<<a, b>>})
        ELSE {<<a, b>>}

\* assign_colors: the (white, black) pairs it may return; random.choice for
\* two players without a last colour.
assign_colors(a, b, ps) ==
    LET color_a == ps[a].last_color
        color_b == ps[b].last_color
    IN  IF color_a = "None" /\ color_b = "None" THEN {<<a, b>>, <<b, a>>}
        ELSE IF color_a = "None"
             THEN (IF color_b = "White" THEN {<<a, b>>} ELSE {<<b, a>>})
        ELSE IF color_b = "None"
             THEN (IF color_a = "White" THEN {<<b, a>>} ELSE {<<a, b>>})
        ELSE IF color_a = "White" THEN {<<b, a>>} ELSE {<<a, b>>}

\* Mutant: the round number follows the player with fewer games.
PairingRows_FewerGames(e, ps) ==
    {[Round |-> (IF ps[c[1]].games_played <= ps[c[2]].games_played
                 THEN ps[c[1]].games_played ELSE ps[c[2]].games_played) + 1,
      White |-> c[1], Black |-> c[2]] :
        c \in assign_colors(e.a, e.b, ps) \cup assign_colors(e.b, e.a, ps)}

\* The rows generate_pairings may build for one matched pair: the matching is
\* a set of tuples whose orientation the library does not fix.
PairingRows(e, ps) ==
    {[Round |-> Max(ps[c[1]].games_played, ps[c[2]].games_played) + 1,
      White |-> c[1], Black |-> c[2]] :
        c \in assign_colors(e.a, e.b, ps) \cup assign_colors(e.b, e.a, ps)}

\* The lists that iterating over the matching (a set) may produce.
PairingLists(m, ps) ==
    {s \in [1..Cardinality(m) -> UNION {PairingRows(e, ps) : e \in m}] :
        \A e \in m : \E i \in 1..Cardinality(m) : s[i] \in PairingRows(e, ps)}

\* generate_pairings: the lists it may return.
generate_pairings(att, ps) ==
    LET waiting == get_waiting_players(att, ps)
        G == create_pairing_graph(waiting, ps)
    IN  IF Len(waiting) < 2 THEN {<<>>}
        ELSE IF G = {} THEN {<<>>}
        ELSE UNION {PairingLists(m, ps) : m \in max_weight_matching(G)}

\* The names generate_pairings prints for a run that returned generated: none
\* when fewer than two players wait (only their number is printed), every
\* waiting player when the graph has no edge, and otherwise the waiting
\* players outside the new pairings.
printed_names(att, ps, generated) ==
    LET waiting == get_waiting_players(att, ps)
        G == create_pairing_graph(waiting, ps)
        paired_players == UNION {{generated[k].White, generated[k].Black} :
                                    k \in 1..Len(generated)}
    IN  IF Len(waiting) < 2 THEN {}
        ELSE IF G = {} THEN Range(waiting)
        ELSE {p \in Range(waiting) : p \notin paired_players}

(***************************************************************************)
(* append_pairings_to_excel and calculate_standings.                       *)
(***************************************************************************)
\* Mutant: the new rows are written from the first data row on.
append_pairings_Overwrite(rows, new) ==
    [k \in 1..Len(new) |->
        [Round |-> new[k].Round, Board |-> new[k].Board,
         White |-> new[k].White, Black |-> new[k].Black,
         ResW |-> NaN, ResB |-> NaN]]
    \o SubSeq(rows, Len(new) + 1, Len(rows))

append_pairings_to_excel(rows, new) ==
    rows \o [k \in 1..Len(new) |->
                [Round |-> new[k].Round, Board |-> new[k].Board,
                 White |-> new[k].White, Black |-> new[k].Black,
                 ResW |-> NaN, ResB |-> NaN]]

\* Mutant: reverse=True is missing, the sort is ascending.
KeyGeq_Ascending(x, y) == x.Pt < y.Pt \/ (x.Pt = y.Pt /\ x.BucT <= y.BucT)

\* Mutant: the sort key is the points alone.
KeyGeq_PointsOnly(x, y) == x.Pt >= y.Pt

\* Mutant: equal keys do not keep their order (the comparison is strict).
KeyGeq_Strict(x, y) == x.Pt > y.Pt \/ (x.Pt = y.Pt /\ x.BucT > y.BucT)

\* key (Pt, BucT) of x is not smaller than that of y
KeyGeq(x, y) == x.Pt > y.Pt \/ (x.Pt = y.Pt /\ x.BucT >= y.BucT)

RECURSIVE InsertByKey(_, _)
\* sort(..., reverse=True) is stable: x goes after every element whose key is
\* not smaller than its own.
InsertByKey(sorted, x) ==
    IF sorted = <<>> THEN <<x>>
    ELSE IF KeyGeq(Head(sorted), x)
         THEN <<Head(sorted)>> \o InsertByKey(Tail(sorted), x)
         ELSE <<x>> \o sorted

RECURSIVE SortStandings(_)
SortStandings(s) ==
    IF s = <<>> THEN <<>>
    ELSE InsertByKey(SortStandings(SubSeq(s, 1, Len(s) - 1)), s[Len(s)])

Buchholz(ps, p) == SumSeq(ps[p].opponent_scores)

calculate_standings(att, ps) ==
    LET rows == [k \in 1..Len(att) |->
                    [Player |-> att[k], Pt |-> ps[att[k]].points,
                     BucT |-> Buchholz(ps, att[k])]]
        sorted == SortStandings(rows)
    IN  [k \in 1..Len(att) |->
            [Pos |-> k, Player |-> sorted[k].Player, Pt |-> sorted[k].Pt,
             BucT |-> sorted[k].BucT, DE |-> 0, Ber |-> 0]]

(***************************************************************************)
(* The tournament: runs of main() on tournament.xlsx, and the arbiter      *)
(* entering the result of a pending game between two runs.                 *)
(***************************************************************************)
Outcomes == {<<2, 0>>, <<1, 1>>, <<0, 2>>}

\* ExcelFileHandler.on_modified: "> 2" seconds and time.sleep(0.5), in half
\* seconds.
DebounceWindow == 4
SleepTime == 1

NoRequest ==
    [pc |-> "none", last_update |-> 0, standings |-> <<>>, pairings |-> <<>>,
     by |-> [last_update |-> 0, standings |-> 0, pairings |-> 0]]

\* greedy_matching has not been called.
NoFallback ==
    /\ graph = [nodes |-> <<>>, added |-> <<>>]
    /\ matching = {}

\* The display server before its first load: the global dict as the module
\* defines it, a handler that has seen no event.
ServerStart ==
    /\ tournament_data = [standings |-> <<>>, pairings |-> <<>>, last_update |-> 0]
    /\ loaded_by = [standings |-> 0, pairings |-> 0, last_update |-> 0]
    /\ reloads = 0
    /\ events = 0
    /\ current_time = DebounceWindow + 1
    /\ last_modified = 0
    /\ handler = [pc |-> "idle", wake |-> 0]
    /\ request = NoRequest

Init ==
    /\ attendees \in {Roster(n) : n \in 2..NumPlayers}
    /\ pairings = <<>>
    /\ standings = <<>>
    /\ MAX_BOARDS \in 1..MaxBoards
    /\ runs = 0
    /\ player_state = InitialState(attendees)
    /\ new_pairings = <<>>
    /\ board_assigned_pairings = <<>>
    /\ phase = "file"
    /\ ServerStart
    /\ NoFallback

\* main(): load, build the ledger, pair, assign boards, append, write standings.
MainWrites ==
    /\ phase = "file"
    /\ runs < MaxRuns
    /\ LET ps == build_player_state(attendees, pairings)
       IN  \E generated \in generate_pairings(attendees, ps) :
             LET assigned == IF generated = <<>> THEN <<>>
                             ELSE assign_board_numbers(generated, pairings, MAX_BOARDS)
             IN  /\ pairings' = append_pairings_to_excel(pairings, assigned)
                 /\ new_pairings' = generated
                 /\ board_assigned_pairings' = assigned
                 /\ player_state' = ps
                 /\ standings' = calculate_standings(attendees, ps)
    /\ runs' = runs + 1
    /\ UNCHANGED <<attendees, MAX_BOARDS, phase>>

Main == MainWrites /\ UNCHANGED <<display, fallback>>

\* The arbiter types both results of a pending game into the sheet.
RecordResultWrites ==
    /\ phase = "file"
    /\ \E i \in 1..Len(pairings), o \in Outcomes :
          /\ ~game_finished(pairings[i])
          /\ pairings' = [pairings EXCEPT ![i].ResW = Num(o[1]), ![i].ResB = Num(o[2])]
    /\ UNCHANGED <<attendees, standings, MAX_BOARDS, runs, player_state,
                   new_pairings, board_assigned_pairings, phase>>

RecordResult == RecordResultWrites /\ UNCHANGED <<display, fallback>>

Next == Main \/ RecordResult

Spec == Init /\ [][Next]_vars

(***************************************************************************)
(* The ledger and the standings as functions of the two sheets: the        *)
(* sheets are drawn, then build_player_state and calculate_standings are   *)
(* applied.  SpecLedger draws well-formed rows (two different roster       *)
(* players, a game pending or decided); SpecRows draws any row over two    *)
(* roster players and an unknown id, with empty, partial and non-numeric   *)
(* result cells.                                                           *)
(***************************************************************************)
HistoryRow(w, b, rw, rb) ==
    [Round |-> 1, Board |-> Num(1), White |-> w, Black |-> b,
     ResW |-> rw, ResB |-> rb]

CleanResults ==
    {<<NaN, NaN>>} \cup {<<Num(o[1]), Num(o[2])>> : o \in Outcomes}

CleanRows(att) ==
    {HistoryRow(w, b, r[1], r[2]) :
        w \in Range(att), b \in Range(att), r \in CleanResults} \
    {HistoryRow(w, w, r[1], r[2]) : w \in Range(att), r \in CleanResults}

ResultCells == {NaN, Num(2), Text}

AnyRows(att) ==
    {HistoryRow(w, b, rw, rb) :
        w \in Range(att) \cup {Len(att) + 1},
        b \in Range(att) \cup {Len(att) + 1},
        rw \in ResultCells, rb \in ResultCells}

Histories(rows) == UNION {[1..n -> rows] : n \in 0..MaxHist}

\* What the pairing engine keeps true of the sheet it writes: no two rows pair
\* the same two players, and no player has two pending games.
Lawful(h) ==
    /\ \A i, j \in 1..Len(h) :
          i # j => {h[i].White, h[i].Black} # {h[j].White, h[j].Black}
    /\ \A i, j \in 1..Len(h) :
          (i # j /\ ~game_finished(h[i]) /\ ~game_finished(h[j]))
              => {h[i].White, h[i].Black} \cap {h[j].White, h[j].Black} = {}

LedgerInit(att, hs) ==
    /\ attendees = att
    /\ pairings \in hs
    /\ standings = <<>>
    /\ MAX_BOARDS = 1
    /\ runs = 0
    /\ player_state = InitialState(att)
    /\ new_pairings = <<>>
    /\ board_assigned_pairings = <<>>
    /\ phase = "loaded"
    /\ ServerStart
    /\ NoFallback

InitLedger ==
    \E n \in 2..LedgerPlayers :
        LedgerInit(Roster(n), {h \in Histories(CleanRows(Roster(n))) : Lawful(h)})

InitRows == LedgerInit(Roster(2), Histories(AnyRows(Roster(2))))

LedgerBuild ==
    /\ phase = "loaded"
    /\ player_state' = build_player_state(attendees, pairings)
    /\ phase' = "built"
    /\ UNCHANGED <<attendees, pairings, standings, MAX_BOARDS, runs,
                   new_pairings, board_assigned_pairings, display, fallback>>

LedgerRank ==
    /\ phase = "built"
    /\ standings' = calculate_standings(attendees, player_state)
    /\ phase' = "ranked"
    /\ UNCHANGED <<attendees, pairings, MAX_BOARDS, runs, player_state,
                   new_pairings, board_assigned_pairings, display, fallback>>

NextLedger == LedgerBuild \/ LedgerRank

SpecLedger == InitLedger /\ [][NextLedger]_vars

SpecRows == InitRows /\ [][NextLedger]_vars

\* Rows between the two roster players with any result cells and any Board
\* cell: a number, or "?".
BoardCells == {Num(b) : b \in 1..MaxBoards} \cup {Text}

SheetRows(att) ==
    {[Round |-> 1, Board |-> c, White |-> w, Black |-> b, ResW |-> rw, ResB |-> rb] :
        w \in Range(att), b \in Range(att), c \in BoardCells,
        rw \in ResultCells, rb \in ResultCells}

InitSheet == LedgerInit(Roster(2), Histories(SheetRows(Roster(2))))

SpecSheet == InitSheet /\ [][NextLedger]_vars

(***************************************************************************)
(* The board allocator as a function: the existing sheet, the new          *)
(* pairings and the number of boards are drawn, then assign_board_numbers  *)
(* is applied.                                                             *)
(***************************************************************************)
ExistingRows ==
    {[Round |-> 1, Board |-> c, White |-> 1, Black |-> 2,
      ResW |-> NaN, ResB |-> NaN] :
        c \in {Num(b) : b \in 1..MaxBoards} \cup {Text}}
    \cup {[Round |-> 1, Board |-> Num(1), White |-> 1, Black |-> 2,
           ResW |-> Num(2), ResB |-> Num(0)]}

\* New pairings as generate_pairings returns them: no Board yet, different
\* players in every pairing.
NewLists ==
    UNION {{[k \in 1..n |-> [Round |-> r[k], White |-> 2 * k + 1,
                             Black |-> 2 * k + 2]] :
                r \in [1..n -> 1..MaxRound]} : n \in 0..MaxNew}

InitBoards ==
    /\ attendees = <<>>
    /\ pairings \in UNION {[1..n -> ExistingRows] : n \in 0..MaxExisting}
    /\ standings = <<>>
    /\ MAX_BOARDS \in 1..MaxBoards
    /\ runs = 0
    /\ player_state = <<>>
    /\ new_pairings \in NewLists
    /\ board_assigned_pairings = <<>>
    /\ phase = "request"
    /\ ServerStart
    /\ NoFallback

AssignBoards ==
    /\ phase = "request"
    /\ board_assigned_pairings' =
          IF new_pairings = <<>> THEN <<>>
          ELSE assign_board_numbers(new_pairings, pairings, MAX_BOARDS)
    /\ phase' = "assigned"
    /\ UNCHANGED <<attendees, pairings, standings, MAX_BOARDS, runs,
                   player_state, new_pairings, display, fallback>>

NextBoards == AssignBoards

SpecBoards == InitBoards /\ [][NextBoards]_vars

(***************************************************************************)
(* One run of main() on a sheet as it is found: any games between roster   *)
(* players, won by White or drawn, in any order, whoever entered them.     *)
(***************************************************************************)
FoundResults == {<<Num(2), Num(0)>>, <<Num(1), Num(1)>>}

FoundRows(att) ==
    {HistoryRow(w, b, r[1], r[2]) :
        w \in Range(att), b \in Range(att), r \in FoundResults} \
    {HistoryRow(w, w, r[1], r[2]) : w \in Range(att), r \in FoundResults}

InitFound ==
    /\ attendees \in {Roster(n) : n \in 2..FoundPlayers}
    /\ \E n \in 0..MaxPast : pairings \in [1..n -> FoundRows(attendees)]
    /\ standings = <<>>
    /\ MAX_BOARDS = MaxBoards
    /\ runs = MaxRuns - 1
    /\ player_state = InitialState(attendees)
    /\ new_pairings = <<>>
    /\ board_assigned_pairings = <<>>
    /\ phase = "file"
    /\ ServerStart
    /\ NoFallback

NextFound == Main

SpecFound == InitFound /\ [][NextFound]_vars

(***************************************************************************)
(* The display server (src/display_server.py): load_tournament_data copies *)
(* the two sheets into the global dict key by key, the watchdog thread     *)
(* calls it from ExcelFileHandler.on_modified, and the request threads of  *)
(* the Flask application read the dict while rendering a page.  The ids of *)
(* the reloads (reloads, loaded_by, request.by) are bookkeeping of the     *)
(* model; the program has no such fields.                                  *)
(***************************************************************************)
result_status(row) ==
    IF notna(row.ResW) /\ notna(row.ResB)
    THEN IF row.ResW = Num(2) THEN "White Win"
         ELSE IF row.ResB = Num(2) THEN "Black Win"
         ELSE IF row.ResW = Num(1) THEN "Draw"
         ELSE "Pending"
    ELSE "Pending"

\* pairings_list: every row of the sheet with its result_status.
pairings_list(rows) ==
    [i \in 1..Len(rows) |->
        [Round |-> rows[i].Round, Board |-> rows[i].Board,
         White |-> rows[i].White, Black |-> rows[i].Black,
         ResW |-> rows[i].ResW, ResB |-> rows[i].ResB,
         result_status |-> result_status(rows[i])]]

\* load_tournament_data, one assignment to the global dict at a time.
LoadStandings ==
    /\ handler.pc = "standings"
    /\ tournament_data' = [tournament_data EXCEPT !.standings = standings]
    /\ loaded_by' = [loaded_by EXCEPT !.standings = reloads]
    /\ handler' = [handler EXCEPT !.pc = "pairings"]
    /\ UNCHANGED fallback
    /\ UNCHANGED <<attendees, pairings, standings, MAX_BOARDS, runs, player_state,
                   new_pairings, board_assigned_pairings, phase, reloads, events,
                   current_time, last_modified, request>>

LoadPairings ==
    /\ handler.pc = "pairings"
    /\ tournament_data' = [tournament_data EXCEPT !.pairings = pairings_list(pairings)]
    /\ loaded_by' = [loaded_by EXCEPT !.pairings = reloads]
    /\ handler' = [handler EXCEPT !.pc = "last_update"]
    /\ UNCHANGED fallback
    /\ UNCHANGED <<attendees, pairings, standings, MAX_BOARDS, runs, player_state,
                   new_pairings, board_assigned_pairings, phase, reloads, events,
                   current_time, last_modified, request>>

SetLastUpdate ==
    /\ handler.pc = "last_update"
    /\ tournament_data' = [tournament_data EXCEPT !.last_update = current_time]
    /\ loaded_by' = [loaded_by EXCEPT !.last_update = reloads]
    /\ handler' = [handler EXCEPT !.pc = "idle"]
    /\ UNCHANGED fallback
    /\ UNCHANGED <<attendees, pairings, standings, MAX_BOARDS, runs, player_state,
                   new_pairings, board_assigned_pairings, phase, reloads, events,
                   current_time, last_modified, request>>

\* The first load, which main() of the display server runs on the file it
\* finds: rows between players 1 and 2 with any numeric or empty result cells.
StatusCells == {NaN, Num(0), Num(1), Num(2)}

StatusRows ==
    {HistoryRow(1, 2, rw, rb) : rw \in StatusCells, rb \in StatusCells}

InitStatus ==
    /\ attendees = Roster(2)
    /\ pairings \in Histories(StatusRows)
    /\ standings = <<>>
    /\ MAX_BOARDS = 1
    /\ runs = 0
    /\ player_state = InitialState(attendees)
    /\ new_pairings = <<>>
    /\ board_assigned_pairings = <<>>
    /\ phase = "file"
    /\ tournament_data = [standings |-> <<>>, pairings |-> <<>>, last_update |-> 0]
    /\ loaded_by = [standings |-> 0, pairings |-> 0, last_update |-> 0]
    /\ reloads = 1
    /\ events = 0
    /\ current_time = DebounceWindow + 1
    /\ last_modified = 0
    /\ handler = [pc |-> "standings", wake |-> 0]
    /\ request = NoRequest
    /\ NoFallback

NextStatus == LoadStandings \/ LoadPairings \/ SetLastUpdate

SpecStatus == InitStatus /\ [][NextStatus]_vars

\* The two writers of tournament.xlsx: every save raises one modification
\* event for the watchdog thread.
ManagerRun ==
    /\ MainWrites
    /\ events' = events + 1
    /\ UNCHANGED fallback
    /\ UNCHANGED <<tournament_data, loaded_by, reloads, current_time,
                   last_modified, handler, request>>

ArbiterSave ==
    /\ RecordResultWrites
    /\ events' = events + 1
    /\ UNCHANGED fallback
    /\ UNCHANGED <<tournament_data, loaded_by, reloads, current_time,
                   last_modified, handler, request>>

\* ExcelFileHandler.on_modified up to time.sleep: the observer thread hands
\* over one event at a time, so the next one waits until the handler returns.
OnModified ==
    /\ events > 0
    /\ handler.pc = "idle"
    /\ events' = events - 1
    /\ IF current_time - last_modified > DebounceWindow
       THEN /\ last_modified' = current_time
            /\ handler' = [pc |-> "sleeping", wake |-> current_time + SleepTime]
       ELSE UNCHANGED <<last_modified, handler>>
    /\ UNCHANGED fallback
    /\ UNCHANGED <<attendees, pairings, standings, MAX_BOARDS, runs, player_state,
                   new_pairings, board_assigned_pairings, phase, tournament_data, loaded_by, reloads,
                   current_time, request>>

\* time.sleep(0.5) returns and load_tournament_data() starts.
WakeUp ==
    /\ handler.pc = "sleeping"
    /\ current_time >= handler.wake
    /\ handler' = [handler EXCEPT !.pc = "standings"]
    /\ reloads' = reloads + 1
    /\ UNCHANGED fallback
    /\ UNCHANGED <<attendees, pairings, standings, MAX_BOARDS, runs, player_state,
                   new_pairings, board_assigned_pairings, phase, tournament_data, loaded_by, events,
                   current_time, last_modified, request>>

\* combined_view in a request thread: the three reads of the global dict, in
\* the order of the arguments of render_template_string.
ReadLastUpdate ==
    /\ request.pc \in {"none", "served"}
    /\ request' = [NoRequest EXCEPT !.pc = "standings",
                                    !.last_update = tournament_data.last_update,
                                    !.by.last_update = loaded_by.last_update]
    /\ UNCHANGED fallback
    /\ UNCHANGED <<attendees, pairings, standings, MAX_BOARDS, runs, player_state,
                   new_pairings, board_assigned_pairings, phase, tournament_data, loaded_by, reloads,
                   events, current_time, last_modified, handler>>

ReadStandings ==
    /\ request.pc = "standings"
    /\ request' = [request EXCEPT !.pc = "pairings",
                                  !.standings = tournament_data.standings,
                                  !.by.standings = loaded_by.standings]
    /\ UNCHANGED fallback
    /\ UNCHANGED <<attendees, pairings, standings, MAX_BOARDS, runs, player_state,
                   new_pairings, board_assigned_pairings, phase, tournament_data, loaded_by, reloads,
                   events, current_time, last_modified, handler>>

ReadPairings ==
    /\ request.pc = "pairings"
    /\ request' = [request EXCEPT !.pc = "served",
                                  !.pairings = tournament_data.pairings,
                                  !.by.pairings = loaded_by.pairings]
    /\ UNCHANGED fallback
    /\ UNCHANGED <<attendees, pairings, standings, MAX_BOARDS, runs, player_state,
                   new_pairings, board_assigned_pairings, phase, tournament_data, loaded_by, reloads,
                   events, current_time, last_modified, handler>>

\* Half a second passes.
Tick ==
    /\ current_time < MaxTime
    /\ current_time' = current_time + 1
    /\ UNCHANGED fallback
    /\ UNCHANGED <<attendees, pairings, standings, MAX_BOARDS, runs, player_state,
                   new_pairings, board_assigned_pairings, phase, tournament_data, loaded_by, reloads,
                   events, last_modified, handler, request>>

\* The server after main() of display_server.py: the first load has read the
\* file (reload 1), the watcher is started and the application serves.
InitDisplay ==
    /\ attendees = Roster(DisplayPlayers)
    /\ pairings = <<>>
    /\ standings = <<>>
    /\ MAX_BOARDS = 1
    /\ runs = 0
    /\ player_state = InitialState(attendees)
    /\ new_pairings = <<>>
    /\ board_assigned_pairings = <<>>
    /\ phase = "file"
    /\ current_time = DebounceWindow + 1
    /\ tournament_data = [standings |-> <<>>, pairings |-> <<>>,
                          last_update |-> current_time]
    /\ loaded_by = [standings |-> 1, pairings |-> 1, last_update |-> 1]
    /\ reloads = 1
    /\ events = 0
    /\ last_modified = 0
    /\ handler = [pc |-> "idle", wake |-> 0]
    /\ request = NoRequest
    /\ NoFallback

NextDisplay ==
    \/ ManagerRun
    \/ ArbiterSave
    \/ OnModified
    \/ WakeUp
    \/ LoadStandings
    \/ LoadPairings
    \/ SetLastUpdate
    \/ ReadLastUpdate
    \/ ReadStandings
    \/ ReadPairings
    \/ Tick

SpecDisplay == InitDisplay /\ [][NextDisplay]_vars

(***************************************************************************)
(* greedy_matching, the fallback of generate_pairings.  The graph is kept  *)
(* as networkx keeps it: the nodes in the order they were added, and for   *)
(* every node its neighbours in the order the edges were added (add_edge   *)
(* stores an edge under both endpoints, so the order of its two arguments  *)
(* leaves no trace and an edge is written here with u < v).                *)
(***************************************************************************)
\* G.edges(data=True): node by node, every edge once, from the endpoint that
\* comes first among the nodes.
RECURSIVE EdgeView(_, _, _)
EdgeView(g, i, seen) ==
    IF i > Len(g.nodes) THEN <<>>
    ELSE LET n == g.nodes[i]
             inc == SelectSeq2(g.added,
                       {e \in Range(g.added) :
                           \/ e.u = n /\ e.v \notin seen
                           \/ e.v = n /\ e.u \notin seen})
             out == [k \in 1..Len(inc) |->
                       [u |-> n,
                        v |-> IF inc[k].u = n THEN inc[k].v ELSE inc[k].u,
                        weight |-> inc[k].weight]]
         IN  out \o EdgeView(g, i + 1, seen \cup {n})

\* edges.sort(key=lambda x: x[2], reverse=True): descending weight, and equal
\* weights keep the order they had (the sort is stable).
RECURSIVE SortByWeight(_)
SortByWeight(es) ==
    IF es = <<>> THEN <<>>
    ELSE LET w == CHOOSE x \in {es[k].weight : k \in 1..Len(es)} :
                      \A k \in 1..Len(es) : es[k].weight <= x
         IN  SelectSeq2(es, {e \in Range(es) : e.weight = w})
                \o SortByWeight(SelectSeq2(es, {e \in Range(es) : e.weight # w}))

\* The loop of greedy_matching over the sorted list.
RECURSIVE GreedyScan(_, _, _, _)
GreedyScan(es, i, matched, chosen) ==
    IF i > Len(es) THEN chosen
    ELSE IF es[i].u \notin matched /\ es[i].v \notin matched
         THEN GreedyScan(es, i + 1, matched \cup {es[i].u, es[i].v},
                         chosen \cup {<<es[i].u, es[i].v>>})
         ELSE GreedyScan(es, i + 1, matched, chosen)

greedy_matching(g) == GreedyScan(SortByWeight(EdgeView(g, 1, {})), 1, {}, {})

\* The weights of the drawn graphs.
GreedyWeights == {1, 2}

GreedyEdges ==
    {[u |-> a, v |-> b, weight |-> w] :
        a \in 1..GreedyNodes, b \in 1..GreedyNodes, w \in GreedyWeights}

\* Any graph on the nodes, with its nodes and its edges added in any order.
InitGreedy ==
    /\ attendees = Roster(GreedyNodes)
    /\ pairings = <<>>
    /\ standings = <<>>
    /\ MAX_BOARDS = 1
    /\ runs = 0
    /\ player_state = InitialState(attendees)
    /\ new_pairings = <<>>
    /\ board_assigned_pairings = <<>>
    /\ phase = "graph"
    /\ ServerStart
    /\ \E ns \in [1..GreedyNodes -> 1..GreedyNodes], n \in 0..MaxEdges :
          \E es \in [1..n -> GreedyEdges] :
             /\ \A i, j \in 1..GreedyNodes : i # j => ns[i] # ns[j]
             /\ \A k \in 1..n : es[k].u < es[k].v
             /\ \A k, l \in 1..n :
                   k # l => <<es[k].u, es[k].v>> # <<es[l].u, es[l].v>>
             /\ graph = [nodes |-> ns, added |-> es]
    /\ matching = {}

GreedyMatching ==
    /\ phase = "graph"
    /\ matching' = greedy_matching(graph)
    /\ phase' = "matched"
    /\ UNCHANGED <<attendees, pairings, standings, MAX_BOARDS, runs, player_state,
                   new_pairings, board_assigned_pairings, graph, display>>

NextGreedy == GreedyMatching

SpecGreedy == InitGreedy /\ [][NextGreedy]_vars

(***************************************************************************)
(* Properties.                                                             *)
(***************************************************************************)
Players(row) == {row.White, row.Black}

PendingRowsOf(p) ==
    {i \in 1..Len(pairings) :
        ~game_finished(pairings[i]) /\ p \in Players(pairings[i])}

\* C1: in the list a run's generate_pairings returned, White differs from
\* Black and neither player is in the other's opponents set of the ledger that
\* run built; and the sheet never holds two pairings between the same two
\* players.
C1_NoRematch ==
    /\ \A k \in 1..Len(new_pairings) :
          LET r == new_pairings[k]
          IN  /\ r.White # r.Black
              /\ r.Black \notin player_state[r.White].opponents
              /\ r.White \notin player_state[r.Black].opponents
    /\ \A i, j \in 1..Len(pairings) :
          i # j => Players(pairings[i]) # Players(pairings[j])

\* A run paired two players of whom one had already played somebody else.
C1_Witness ==
    \E k \in 1..Len(new_pairings) :
        /\ player_state[new_pairings[k].White].opponents # {}
        /\ Len(pairings) > Len(new_pairings)

\* C2: no player occurs in two pairings of the list one generate_pairings call
\* returned, no player of that list was currently playing in the ledger of that
\* run, and at no time does a player have two pending games.
C2_OneGameAtATime ==
    /\ \A k, l \in 1..Len(new_pairings) :
          k # l => Players(new_pairings[k]) \cap Players(new_pairings[l]) = {}
    /\ \A k \in 1..Len(new_pairings) :
          \A q \in Players(new_pairings[k]) : ~player_state[q].currently_playing
    /\ \A q \in Range(attendees) : Cardinality(PendingRowsOf(q)) <= 1

\* A run returned a pairing while another game was still pending.
C2_Witness ==
    /\ new_pairings # <<>>
    /\ \E q \in Range(attendees) : player_state[q].currently_playing

RECURSIVE CurrentOpponentTotal(_, _, _)
\* The sum, over the finished games of p in rows, of the points the opponent
\* has in ledger ps.
CurrentOpponentTotal(ps, rows, p) ==
    IF rows = <<>> THEN 0
    ELSE LET r == Head(rows)
         IN  (IF game_finished(r) /\ r.White = p THEN ps[r.Black].points ELSE 0)
             + (IF game_finished(r) /\ r.Black = p THEN ps[r.White].points ELSE 0)
             + CurrentOpponentTotal(ps, Tail(rows), p)

\* The standings sheet is the one a run wrote from the finished games the
\* sheet holds now: no result was entered since.
StandingsFresh ==
    /\ runs > 0
    /\ LET now == build_player_state(attendees, pairings)
       IN  \A q \in Range(attendees) :
              /\ now[q].points = player_state[q].points
              /\ now[q].games_played = player_state[q].games_played

\* C3: the BucT of every standings row is the sum, over the player's finished
\* games, of the opponent's points after the whole history.
C3_BucTCurrent ==
    StandingsFresh =>
        \A k \in 1..Len(standings) :
            standings[k].BucT =
                CurrentOpponentTotal(player_state, pairings, standings[k].Player)

\* The pending games the existing sheet holds on boards 1..MAX_BOARDS.
PendingOnBoards ==
    Cardinality({i \in 1..Len(pairings) :
                    /\ ~game_finished(pairings[i])
                    /\ pairings[i].Board.kind = "num"
                    /\ pairings[i].Board.val \in 1..MAX_BOARDS})

NoBoardOverfull ==
    \A b \in 1..MAX_BOARDS : get_board_usage_count(pairings, b) <= 2

\* C4: with B boards holding p pending games (at most 2 each), the first
\* 2 * B - p new pairings in round order all receive a board number.
C4_FullCapacity ==
    (phase = "assigned" /\ NoBoardOverfull) =>
        \A k \in 1..Len(board_assigned_pairings) :
            k <= 2 * MAX_BOARDS - PendingOnBoards
                => board_assigned_pairings[k].Board.kind = "num"

\* The pending games on board b when the k-th new pairing is assigned: those of
\* the sheet and those given out earlier in the call.
UsageAt(k, b) ==
    get_board_usage_count(pairings, b)
    + Cardinality({j \in 1..(k - 1) : board_assigned_pairings[j].Board = Num(b)})

HandedOutBefore(k) ==
    {board_assigned_pairings[j].Board.val : j \in
        {i \in 1..(k - 1) : board_assigned_pairings[i].Board.kind = "num"}}

C6_Reassigned ==
    [][runs' = runs + 1 =>
          \A i \in 1..Len(pairings) :
              (/\ ~game_finished(pairings[i])
               /\ pairings[i].Board = Text
               /\ \E b \in 1..MAX_BOARDS : get_board_usage_count(pairings, b) < 2)
                  => pairings'[i].Board.kind = "num"]_vars

ABeatB ==
    /\ attendees = Roster(4)
    /\ \/ pairings = <<HistoryRow(1, 2, Num(2), Num(0))>>
       \/ pairings = <<HistoryRow(2, 1, Num(0), Num(2))>>

StandingsOrder == [k \in 1..Len(standings) |-> standings[k].Player]

\* C8, as stated: A first with 1.0 point, then C and D, and B last.
C8_BLast ==
    (phase = "ranked" /\ ABeatB) =>
        /\ StandingsOrder = <<1, 3, 4, 2>>
        /\ standings[1].Pt = 2

\* C8, amended: A first with 1.0 point, then B, whose BucT is A's 1.0 point,
\* then C and D tied at 0.0 points and BucT 0.0 in roster order.
C8_BSecond ==
    (phase = "ranked" /\ ABeatB) =>
        /\ StandingsOrder = <<1, 2, 3, 4>>
        /\ [k \in 1..4 |-> standings[k].Pt] = <<2, 0, 0, 0>>
        /\ [k \in 1..4 |-> standings[k].BucT] = <<0, 2, 0, 0>>

C8_Witness == phase = "ranked" /\ ABeatB /\ standings[2].Player = 2

\* C9: more points give a strictly smaller Pos; with equal points the higher
\* BucT gives the strictly smaller Pos; the Pos values are 1..n, one for every
\* roster player, and every row shows the points and the Buchholz sum of the
\* ledger.
C9_Ranking ==
    phase = "ranked" =>
        /\ Len(standings) = Len(attendees)
        /\ \A k \in 1..Len(standings) : standings[k].Pos = k
        /\ \A q \in Range(attendees) :
              \E k \in 1..Len(standings) :
                  /\ standings[k].Player = q
                  /\ standings[k].Pt = player_state[q].points
                  /\ standings[k].BucT = SumSeq(player_state[q].opponent_scores)
        /\ \A i, j \in 1..Len(standings) :
              /\ standings[i].Pt > standings[j].Pt
                    => standings[i].Pos < standings[j].Pos
              /\ (standings[i].Pt = standings[j].Pt
                  /\ standings[i].BucT > standings[j].BucT)
                    => standings[i].Pos < standings[j].Pos

\* Two players are level on points, and the one later in the roster has the
\* higher BucT and the smaller Pos.
C9_Witness ==
    /\ phase = "ranked"
    /\ \E i, j \in 1..Len(standings) :
          /\ standings[i].Pt = standings[j].Pt
          /\ standings[i].BucT > standings[j].BucT
          /\ standings[i].Player > standings[j].Player
          /\ i < j

\* The colours build_player_state records for p: one per row it processes to
\* the end, which is a row of two roster ids with two numeric results.
ColoursRecorded(p) ==
    LET done == {i \in 1..Len(pairings) :
                    /\ Players(pairings[i]) \subseteq Range(attendees)
                    /\ pairings[i].ResW.kind = "num"
                    /\ pairings[i].ResB.kind = "num"}
    IN  Cardinality({i \in done : pairings[i].White = p})
        + Cardinality({i \in done : pairings[i].Black = p})

\* C10: after build_player_state every player's games_played is the length of
\* opponent_scores and the number of colours recorded, and a last colour is
\* set exactly when a game was played.
C10_Counts ==
    phase \in {"built", "ranked"} =>
        \A q \in Range(attendees) :
            /\ player_state[q].games_played = Len(player_state[q].opponent_scores)
            /\ player_state[q].games_played = ColoursRecorded(q)
            /\ (player_state[q].games_played = 0) <=> (player_state[q].last_color = "None")

\* The ledger was built from a finished game of a player against themselves
\* and a row that names an unknown id.
C10_Witness ==
    /\ phase = "built"
    /\ \E i, j \in 1..Len(pairings) :
          /\ pairings[i].White = pairings[i].Black
          /\ pairings[i].White \in Range(attendees)
          /\ pairings[i].ResW.kind = "num" /\ pairings[i].ResB.kind = "num"
          /\ ~(Players(pairings[j]) \subseteq Range(attendees))
    /\ \E q \in Range(attendees) : player_state[q].games_played = 2

\* A finished pairing between two roster ids.
FinishedRosterRow(r) ==
    /\ game_finished(r)
    /\ Players(r) \subseteq Range(attendees)

WellFormed(r) == r.ResW.kind = "num" /\ r.ResB.kind = "num"

RECURSIVE RecordedFor(_, _, _)
\* The sum of the numeric results rows records for p in finished pairings of
\* two roster ids; with whole, a row with a non-numeric result counts for
\* nobody (the row is skipped), otherwise each numeric cell counts for its
\* player.
RecordedFor(rows, p, whole) ==
    IF rows = <<>> THEN 0
    ELSE LET r == Head(rows)
             counts == FinishedRosterRow(r) /\ (whole => WellFormed(r))
         IN  (IF counts /\ r.White = p /\ r.ResW.kind = "num" THEN r.ResW.val ELSE 0)
             + (IF counts /\ r.Black = p /\ r.ResB.kind = "num" THEN r.ResB.val ELSE 0)
             + RecordedFor(Tail(rows), p, whole)

RECURSIVE TotalPoints(_, _)
TotalPoints(ps, att) ==
    IF att = <<>> THEN 0 ELSE ps[Head(att)].points + TotalPoints(ps, Tail(att))

RECURSIVE TotalRecorded(_, _)
TotalRecorded(att, whole) ==
    IF att = <<>> THEN 0
    ELSE RecordedFor(pairings, Head(att), whole) + TotalRecorded(Tail(att), whole)

PointsAreRecorded(whole) ==
    /\ \A q \in Range(attendees) :
          player_state[q].points = RecordedFor(pairings, q, whole)
    /\ TotalPoints(player_state, attendees) = TotalRecorded(attendees, whole)

\* C11: after build_player_state on any history every player's points are the
\* sum of the results the finished pairings of two roster ids record for that
\* player, and the points of all players add up to the sum of both results
\* over those pairings; a row with a non-numeric result is read either as
\* skipped whole or cell by cell, the same way for the whole history.
C11_PointsSum ==
    phase \in {"built", "ranked"} =>
        (PointsAreRecorded(TRUE) \/ PointsAreRecorded(FALSE))

\* C12: in the list a run's generate_pairings returned, a player without a last
\* colour who is paired with a player that has one receives the colour
\* opposite to that player's last colour.
C12_NewGetsOpposite ==
    \A k \in 1..Len(new_pairings) :
        LET r == new_pairings[k]
        IN  /\ (/\ player_state[r.White].last_color = "None"
                /\ player_state[r.Black].last_color # "None")
                  => player_state[r.Black].last_color = "Black"
            /\ (/\ player_state[r.Black].last_color = "None"
                /\ player_state[r.White].last_color # "None")
                  => player_state[r.White].last_color = "White"

\* The colours of p in the finished rows of the sheet, in sheet order.
FinishedColours(p) ==
    LET RECURSIVE Colours(_)
        Colours(rows) ==
            IF rows = <<>> THEN <<>>
            ELSE LET r == Head(rows)
                 IN  (IF game_finished(r) /\ r.White = p THEN <<"White">>
                      ELSE IF game_finished(r) /\ r.Black = p THEN <<"Black">>
                      ELSE <<>>) \o Colours(Tail(rows))
    IN  Colours(pairings)

LastTwo(q, c) ==
    LET h == FinishedColours(q)
    IN  Len(h) >= 2 /\ h[Len(h)] = c /\ h[Len(h) - 1] = c

\* Both orientations of the pair would give some player a third game in a row
\* with the same colour.
NoLegalOrientation(a, b) ==
    /\ LastTwo(a, "White") \/ LastTwo(b, "Black")
    /\ LastTwo(b, "White") \/ LastTwo(a, "Black")

\* C14: no pairing of the list a run returned gives a player the colour of
\* both of that player's last two finished games, and two players for whom
\* both orientations would do so are not paired with each other.
C14_NoThirdInARow ==
    \A k \in 1..Len(new_pairings) :
        LET r == new_pairings[k]
        IN  /\ ~LastTwo(r.White, "White")
            /\ ~LastTwo(r.Black, "Black")
            /\ ~NoLegalOrientation(r.White, r.Black)

\* A run gave Black to a player whose last two finished games were both with
\* White.
C14_Witness ==
    \E k \in 1..Len(new_pairings) : LastTwo(new_pairings[k].Black, "White")

\* A run left unpaired two players who never met and whose last two games were
\* both with White.
C14_WitnessUnpaired ==
    /\ runs = MaxRuns
    /\ \E a, b \in Range(attendees) :
          /\ a # b
          /\ b \notin player_state[a].opponents
          /\ LastTwo(a, "White") /\ LastTwo(b, "White")
          /\ \A k \in 1..Len(new_pairings) :
                Players(new_pairings[k]) \cap {a, b} = {}

\* The calls create_pairing_graph makes on the ledger of the last run:
\* <<a, b, same_group>> for two waiting players of one group, and for two
\* waiting players that are each alone in their group.
CanPairCalls ==
    LET waiting == get_waiting_players(attendees, player_state)
        idx == {x \in (1..Len(waiting)) \X (1..Len(waiting)) : x[1] < x[2]}
    IN  {<<waiting[x[1]], waiting[x[2]], TRUE>> :
            x \in {y \in idx : GroupKey(player_state, waiting[y[1]])
                               = GroupKey(player_state, waiting[y[2]])}}
        \cup
        {<<waiting[x[1]], waiting[x[2]], FALSE>> :
            x \in {y \in idx : /\ GroupSize(player_state, waiting, y[1]) = 1
                               /\ GroupSize(player_state, waiting, y[2]) = 1}}

NeverMet(a, b) == b \notin player_state[a].opponents

ColoursCompatible(a, b) ==
    \/ player_state[a].last_color = "None"
    \/ player_state[b].last_color = "None"
    \/ player_state[a].last_color # player_state[b].last_color

GamesDiff(a, b) ==
    Abs(player_state[a].games_played - player_state[b].games_played)

\* C15, as stated: can_pair is true exactly when b is not in a's opponents and
\* one of the two has no last colour or the last colours differ.
C15_CanPair ==
    \A c \in CanPairCalls :
        can_pair(c[1], c[2], player_state, c[3])
            <=> (NeverMet(c[1], c[2]) /\ ColoursCompatible(c[1], c[2]))

\* C15, amended: can_pair is true exactly when b is not in a's opponents, one
\* of the two has no last colour or the last colours differ, and, in a call
\* for two players of different groups, their games_played differ by at most
\* 1; two equal last colours and a rematch are refused.
C15_CanPairCrossGroup ==
    \A c \in CanPairCalls :
        /\ can_pair(c[1], c[2], player_state, c[3])
              <=> (/\ NeverMet(c[1], c[2])
                   /\ ColoursCompatible(c[1], c[2])
                   /\ (~c[3] => GamesDiff(c[1], c[2]) <= 1))
        /\ (/\ player_state[c[1]].last_color # "None"
            /\ player_state[c[1]].last_color = player_state[c[2]].last_color)
              => ~can_pair(c[1], c[2], player_state, c[3])
        /\ ~NeverMet(c[1], c[2]) => ~can_pair(c[1], c[2], player_state, c[3])

\* The run called can_pair for a cross-group pair that never met, has
\* compatible colours and is two games apart, and for a pair that met and has
\* different last colours.
C15_Witness ==
    /\ \E c \in CanPairCalls :
          /\ ~c[3] /\ NeverMet(c[1], c[2]) /\ ColoursCompatible(c[1], c[2])
          /\ GamesDiff(c[1], c[2]) > 1
    /\ \E c \in CanPairCalls :
          ~NeverMet(c[1], c[2]) /\ ColoursCompatible(c[1], c[2])

\* The players that were waiting in the ledger of the last run.
Waiting == Range(get_waiting_players(attendees, player_state))

\* The waiting players of q's (games_played, points) bucket.
Bucket(q) ==
    {x \in Waiting : GroupKey(player_state, x) = GroupKey(player_state, q)}

PairedInRun ==
    UNION {Players(new_pairings[k]) : k \in 1..Len(new_pairings)}

\* C16: in the list a run returned, a pairing between players of different
\* (games_played, points) buckets has both players alone in their bucket
\* among the waiting players; a player whose bucket has two or more waiting
\* members is paired inside that bucket or not at all.
C16_CrossBucketSingletons ==
    \A k \in 1..Len(new_pairings) :
        LET r == new_pairings[k]
        IN  /\ GroupKey(player_state, r.White) # GroupKey(player_state, r.Black)
                => (Bucket(r.White) = {r.White} /\ Bucket(r.Black) = {r.Black})
            /\ \A q \in Players(r) :
                  Cardinality(Bucket(q)) >= 2 => Players(r) \subseteq Bucket(q)

\* A run paired two players of different buckets and left unpaired a waiting
\* player who shares a bucket with somebody and could have played, outside
\* the bucket, another player the run left unpaired.
C16_Witness ==
    /\ \E k \in 1..Len(new_pairings) :
          GroupKey(player_state, new_pairings[k].White)
              # GroupKey(player_state, new_pairings[k].Black)
    /\ \E q, x \in Waiting \ PairedInRun :
          /\ Cardinality(Bucket(q)) >= 2
          /\ x \notin Bucket(q)
          /\ NeverMet(q, x) /\ ColoursCompatible(q, x) /\ GamesDiff(q, x) <= 1

\* C17: a player who was waiting in a run and is not in the list it returned
\* was one of an odd number of waiting players, or no other waiting player the
\* run left unpaired is eligible to play them (never met, compatible last
\* colours).  This is the weaker reading: with an even number of waiting
\* players, two that are eligible for each other are not both left unpaired.
C17_UnpairedOnlyIfStuck ==
    runs > 0 =>
        \A q \in Waiting \ PairedInRun :
            \/ Cardinality(Waiting) % 2 = 1
            \/ \A x \in Waiting \ (PairedInRun \cup {q}) :
                  ~(NeverMet(q, x) /\ ColoursCompatible(q, x))

\* The pairs the pairing graph joins: never met, compatible last colours, and
\* either of one bucket or each alone in its bucket and at most one game apart.
Joinable(a, b) ==
    /\ NeverMet(a, b)
    /\ ColoursCompatible(a, b)
    /\ \/ Bucket(a) = Bucket(b)
       \/ /\ Bucket(a) = {a}
          /\ Bucket(b) = {b}
          /\ GamesDiff(a, b) <= 1

\* C17, amended: two players who were waiting in a run and whom the pairing
\* graph joins (never met, compatible last colours, same bucket or both alone
\* in their bucket and at most one game apart) are not both left out of the
\* list the run returned.
C17_NoJoinablePairLeft ==
    runs > 0 =>
        \A q, x \in Waiting \ PairedInRun : q # x => ~Joinable(q, x)

\* A run returned a pairing and left unpaired two waiting players who never
\* met and have compatible last colours.
C17_Witness ==
    /\ new_pairings # <<>>
    /\ \E q, x \in Waiting \ PairedInRun :
          q # x /\ NeverMet(q, x) /\ ColoursCompatible(q, x)

\* C18: the first run on a roster of n >= 2 players and an empty sheet returns
\* n div 2 pairings, all of Round 1, between 2 * (n div 2) different roster
\* players: everybody when n is even, all but one when n is odd.
C18_FirstRound ==
    runs = 1 =>
        LET n == Len(attendees)
        IN  /\ Len(new_pairings) = n \div 2
            /\ \A k \in 1..Len(new_pairings) : new_pairings[k].Round = 1
            /\ PairedInRun \subseteq Range(attendees)
            /\ Cardinality(PairedInRun) = 2 * (n \div 2)
            /\ n % 2 = 0 => PairedInRun = Range(attendees)
            /\ n % 2 = 1 => Cardinality(Range(attendees) \ PairedInRun) = 1

\* The first run on a roster of 5 left one player out.
C18_Witness ==
    /\ runs = 1
    /\ Len(attendees) = 5
    /\ Len(new_pairings) = 2
    /\ Cardinality(Range(attendees) \ PairedInRun) = 1

\* The sheet after the assigned pairings are appended.
SheetAfter == append_pairings_to_excel(pairings, board_assigned_pairings)

\* C19, one run: on a sheet where no board holds more than 2 pending games, the
\* boards assigned to the new pairings lie in 1..MAX_BOARDS, none of them held
\* 2 pending games, and after the new rows are appended no board holds more
\* than 2 pending games.  Entering a result only lowers the number of pending
\* games of a board, and the empty sheet has none.
C19_BoardLimit ==
    (phase = "assigned" /\ NoBoardOverfull) =>
        /\ \A k \in 1..Len(board_assigned_pairings) :
              LET c == board_assigned_pairings[k].Board
              IN  c.kind = "num" =>
                      /\ c.val \in 1..MAX_BOARDS
                      /\ get_board_usage_count(pairings, c.val) < 2
        /\ \A b \in 1..MAX_BOARDS : get_board_usage_count(SheetAfter, b) <= 2

\* One board held 2 pending games and another 1; the first new pairing filled
\* the second board and the next one got "?".
C19_Witness ==
    /\ phase = "assigned"
    /\ NoBoardOverfull
    /\ \E b \in 1..MAX_BOARDS : get_board_usage_count(pairings, b) = 2
    /\ \E b \in 1..MAX_BOARDS :
          /\ get_board_usage_count(pairings, b) = 1
          /\ get_board_usage_count(SheetAfter, b) = 2
    /\ \E k \in 1..Len(board_assigned_pairings) :
          board_assigned_pairings[k].Board = Text

\* C19 over the runs of a tournament: at no time does a board hold more than 2
\* pending games, and every Board cell of the sheet is "?" or a number in
\* 1..MAX_BOARDS.
C19_BoardLimitRuns ==
    /\ \A b \in 1..MAX_BOARDS : get_board_usage_count(pairings, b) <= 2
    /\ \A i \in 1..Len(pairings) :
          \/ pairings[i].Board = Text
          \/ /\ pairings[i].Board.kind = "num"
             /\ pairings[i].Board.val \in 1..MAX_BOARDS

\* A pairing without its Board cell.
Unassigned(r) == [Round |-> r.Round, White |-> r.White, Black |-> r.Black]

\* C20: after assign_board_numbers, when a new pairing got "?" every new
\* pairing of the call with a strictly higher Round got "?" as well, and the
\* returned list holds every new pairing once.
C20_EarliestRoundsFirst ==
    phase = "assigned" =>
        /\ \A k, l \in 1..Len(board_assigned_pairings) :
              (/\ board_assigned_pairings[k].Board = Text
               /\ board_assigned_pairings[l].Round > board_assigned_pairings[k].Round)
                  => board_assigned_pairings[l].Board = Text
        /\ Len(board_assigned_pairings) = Len(new_pairings)
        /\ {Unassigned(board_assigned_pairings[k]) :
              k \in 1..Len(board_assigned_pairings)} = Range(new_pairings)

\* The call was given a pairing of round 2 before one of round 1 and had a
\* board for one of them: round 1 got it.
C20_Witness ==
    /\ phase = "assigned"
    /\ Len(new_pairings) >= 2
    /\ new_pairings[1].Round > new_pairings[2].Round
    /\ \E k, l \in 1..Len(board_assigned_pairings) :
          /\ board_assigned_pairings[k].Board.kind = "num"
          /\ board_assigned_pairings[l].Board = Text
          /\ board_assigned_pairings[k].Round < board_assigned_pairings[l].Round

\* The ledger build_player_state returns for the first n rows of the sheet.
LedgerAfter(n) == build_player_state(attendees, SubSeq(pairings, 1, n))

\* At least one of the two results of the row is absent.
Pending(row) == row.ResW = NaN \/ row.ResB = NaN

\* C21: a row between roster players with at least one result absent, also
\* with exactly one present, makes build_player_state set currently_playing
\* for both players and add each to the other's opponents, and leaves their
\* points, games_played, last_color and opponent_scores as they were; and
\* get_board_usage_count of a board is the number of such rows whose Board
\* cell is that number.
C21_PendingRow ==
    phase \in {"built", "ranked"} =>
        /\ player_state = LedgerAfter(Len(pairings))
        /\ \A i \in 1..Len(pairings) :
              LET r == pairings[i]
                  before == LedgerAfter(i - 1)
                  after == LedgerAfter(i)
              IN  Pending(r) =>
                    /\ \A q \in Players(r) :
                          /\ after[q].currently_playing
                          /\ Players(r) \subseteq after[q].opponents \cup {q}
                          /\ after[q].points = before[q].points
                          /\ after[q].games_played = before[q].games_played
                          /\ after[q].last_color = before[q].last_color
                          /\ after[q].opponent_scores = before[q].opponent_scores
                    /\ \A q \in Range(attendees) \ Players(r) : after[q] = before[q]
        /\ \A b \in 1..MaxBoards :
              get_board_usage_count(pairings, b) =
                  Cardinality({i \in 1..Len(pairings) :
                                  Pending(pairings[i]) /\ pairings[i].Board = Num(b)})

\* The ledger was built from a finished game followed by a row with exactly
\* one result present, on a numbered board, and a pending row on "?".
C21_Witness ==
    /\ phase = "built"
    /\ Len(pairings) >= 2
    /\ pairings[1].ResW.kind = "num" /\ pairings[1].ResB.kind = "num"
    /\ pairings[1].White # pairings[1].Black
    /\ pairings[2].ResW.kind = "num" /\ pairings[2].ResB = NaN
    /\ pairings[2].Board.kind = "num"
    /\ player_state[pairings[2].White].currently_playing
    /\ player_state[pairings[2].White].games_played = 1

\* The sheet without its i-th row.
WithoutRow(i) == SubSeq(pairings, 1, i - 1) \o SubSeq(pairings, i + 1, Len(pairings))

\* C22: a row in which an id is not in the roster changes nothing: the ledger
\* built from the sheet is the one built from the sheet without that row, also
\* when the other id is a roster player and the row is finished.
C22_UnknownIdSkipped ==
    phase \in {"built", "ranked"} =>
        \A i \in 1..Len(pairings) :
            ~(Players(pairings[i]) \subseteq Range(attendees))
                => player_state = build_player_state(attendees, WithoutRow(i))

\* The ledger was built from a finished game of two roster players and a
\* finished row of a roster player against an unknown id.
C22_Witness ==
    /\ phase = "built"
    /\ \E i, j \in 1..Len(pairings) :
          /\ pairings[i].White \in Range(attendees)
          /\ pairings[i].Black \notin Range(attendees)
          /\ pairings[i].ResW.kind = "num" /\ pairings[i].ResB.kind = "num"
          /\ Players(pairings[j]) \subseteq Range(attendees)
          /\ player_state[pairings[i].White].games_played = 1
          /\ player_state[pairings[i].White].opponents
                = Players(pairings[j]) \ {pairings[i].White}
          /\ pairings[j].White # pairings[j].Black

\* Processing the row raises: two roster ids, both results present, and one
\* of them is not a number.
Raises(row) ==
    /\ Players(row) \subseteq Range(attendees)
    /\ notna(row.ResW) /\ notna(row.ResB)
    /\ ~WellFormed(row)

\* C28: a row whose processing raises is skipped as a whole: the ledger built
\* from the sheet is the one built from the sheet without that row.
C28_ErrorRowSkipped ==
    phase \in {"built", "ranked"} =>
        \A i \in 1..Len(pairings) :
            Raises(pairings[i])
                => player_state = build_player_state(attendees, WithoutRow(i))

\* C23: after load_tournament_data a pairing has the status "Pending" exactly
\* when one of its results is absent; with both results present the status
\* is "White Win", "Black Win" or "Draw" and agrees with the two results:
\* the winner has the larger result, a draw has two equal results.
C23_StatusAgrees ==
    handler.pc \in {"last_update", "idle"} =>
        /\ Len(tournament_data.pairings) = Len(pairings)
        /\ \A i \in 1..Len(pairings) :
              LET r == pairings[i]
                  s == tournament_data.pairings[i].result_status
              IN  /\ s = "Pending" <=> (r.ResW = NaN \/ r.ResB = NaN)
                  /\ (notna(r.ResW) /\ notna(r.ResB)) =>
                        /\ s \in {"White Win", "Black Win", "Draw"}
                        /\ s = "White Win" => r.ResW.val > r.ResB.val
                        /\ s = "Black Win" => r.ResB.val > r.ResW.val
                        /\ s = "Draw" => r.ResW.val = r.ResB.val

\* C29: a page never combines standings, pairings and last_update of
\* different reloads: the three values a request has read come from the
\* same run of load_tournament_data.
C29_OneReloadPerPage ==
    request.pc = "served" =>
        /\ request.by.standings = request.by.pairings
        /\ request.by.pairings = request.by.last_update

\* C30: once the file has stopped changing and the watcher has nothing left
\* to do (no event waiting, the handler returned), the data held by the
\* server are the contents of the file: no event was lost to the debounce.
C30_NoEventLost ==
    (events = 0 /\ handler.pc = "idle") =>
        /\ tournament_data.standings = standings
        /\ tournament_data.pairings = pairings_list(pairings)

\* C24: after a pairing run every waiting player who is not in a new
\* pairing is reported by name, whether fewer than two players waited, the
\* graph had no edge, or the matching left some players out.
C24_UnpairedReportedByName ==
    runs > 0 =>
        (Waiting \ PairedInRun)
            \subseteq printed_names(attendees, player_state, new_pairings)

\* The edges of the graph, and the endpoints of a set of pairs.
EdgeSet == Range(graph.added)

Ends(ms) == UNION {{t[1], t[2]} : t \in ms}

\* e is considered before f: larger weight first, equal weights by ascending
\* id pair.
Before(e, f) ==
    \/ e.weight > f.weight
    \/ /\ e.weight = f.weight
       /\ \/ e.u < f.u
          \/ e.u = f.u /\ e.v < f.v

\* The selection the claim describes: take the first edge, in that order,
\* whose endpoints are both still unmatched, until there is none.
RECURSIVE AscendingGreedy(_, _)
AscendingGreedy(E, chosen) ==
    LET free == {e \in E : {e.u, e.v} \cap Ends(chosen) = {}}
    IN  IF free = {} THEN chosen
        ELSE LET e == CHOOSE x \in free : \A f \in free \ {x} : Before(x, f)
             IN  AscendingGreedy(E, chosen \cup {<<e.u, e.v>>})

\* The pairs of a matching without the order of their two players.
Unordered(ms) == {{t[1], t[2]} : t \in ms}

\* C25 (maximality): no edge of the graph has both endpoints outside the
\* matching greedy_matching returned.
C25_Maximal ==
    phase = "matched" =>
        \A e \in EdgeSet : {e.u, e.v} \cap Ends(matching) # {}

\* C25: greedy_matching selects in order of descending weight and, among equal
\* weights, ascending id pair, each edge whose endpoints are both unmatched;
\* so its result depends on the weighted graph only, not on the order in
\* which nodes and edges were added, and it is maximal.
C25_GreedyByWeightThenIds ==
    phase = "matched" =>
        /\ Unordered(matching) = Unordered(AscendingGreedy(EdgeSet, {}))
        /\ \A e \in EdgeSet : {e.u, e.v} \cap Ends(matching) # {}

\* The place of player p in the roster.
RosterIndex(p) == CHOOSE k \in 1..Len(attendees) : attendees[k] = p

\* Rows i and j of the standings are equal on every sort criterion.
FullTie(i, j) ==
    /\ standings[i].Pt = standings[j].Pt
    /\ standings[i].BucT = standings[j].BucT

\* C26: building the player state and the standings again from the unchanged
\* roster and history gives the ledger and the rows (Pos, Player, Pt, BucT)
\* already held, and players equal on Pt and BucT stand in roster order.
C26_IdempotentAndStable ==
    phase = "ranked" =>
        /\ build_player_state(attendees, pairings) = player_state
        /\ calculate_standings(attendees,
                               build_player_state(attendees, pairings)) = standings
        /\ \A i, j \in 1..Len(standings) :
              (i < j /\ FullTie(i, j))
                  => RosterIndex(standings[i].Player)
                        < RosterIndex(standings[j].Player)

\* Two players with points are tied on Pt and BucT, above a third player.
C26_Witness ==
    /\ phase = "ranked"
    /\ \E i, j, k \in 1..Len(standings) :
          /\ i < j /\ j < k
          /\ FullTie(i, j)
          /\ standings[i].Pt > 0
          /\ ~FullTie(j, k)

\* C27: the Round numbers of the pairings of any one player are pairwise
\* distinct: no two rows of the sheet that share a player carry the same
\* Round.
C27_RoundsDistinctPerPlayer ==
    \A i, j \in 1..Len(pairings) :
        (i # j /\ Players(pairings[i]) \cap Players(pairings[j]) # {})
            => pairings[i].Round # pairings[j].Round

\* The rows before row i in which p plays.
EarlierRowsOf(p, i) == {j \in 1..(i - 1) : p \in Players(pairings[j])}

\* C27 (amended): the k-th pairing of any one player carries Round k or
\* k + 1; so a player's Round numbers never decrease along the sheet and at
\* most two of a player's games carry the same Round number.
C27_RoundFollowsGameCount ==
    \A i \in 1..Len(pairings) : \A p \in Players(pairings[i]) :
        LET k == Cardinality(EarlierRowsOf(p, i)) + 1
        IN  pairings[i].Round \in {k, k + 1}

\* A player has two games with the same Round number.
C27_Witness ==
    \E i, j \in 1..Len(pairings) :
        /\ i < j
        /\ Players(pairings[i]) \cap Players(pairings[j]) # {}
        /\ pairings[i].Round = pairings[j].Round

=============================================================================
